---------------------------- MODULE Spec2Model ----------------------------
(***************************************************************************)
(* Model of the employee-assistant guardrail service:                      *)
(*   src/employee-assistant/src/guardrail_service.py  (GuardrailService)   *)
(*   src/employee-assistant/src/api.py                (Flask routes)       *)
(*                                                                         *)
(* Python dicts are records, lists are sequences, None is the value None   *)
(* below, and a JSON null standing where a dict is expected is JNull.      *)
(* The two remote calls (bedrock.apply_guardrail, bedrock.converse) are    *)
(* the environment: each call either raises or returns a response, and the *)
(* route actions choose that outcome nondeterministically.                 *)
(***************************************************************************)
EXTENDS Integers, Sequences, FiniteSets, TLC

VARIABLES
    pc,        \* "idle": waiting for a request; "done": a response was produced
    request,   \* the request being served: [route, data]
    response,  \* the HTTP response: [status, body]
    calls,     \* the remote calls made while serving the request, in order
    provider,  \* the outcomes the provider gave: [guard: Seq, converse: Seq]
    checks     \* what each check_content call of the request returned:
               \*   [result, parsed] (parsed = the reasons _parse_assessments gave)

vars == <<pc, request, response, calls, provider, checks>>

-----------------------------------------------------------------------------
(* Bounds of the model *)

\* longest assessments list the provider returns
MaxAssessments == 2
\* longest texts list of a batch-check request
MaxBatch == 2

-----------------------------------------------------------------------------
(* Python values *)

\* Python's None (dict.get of a missing key without default)
None == "<None>"

\* a JSON null standing where the code expects a dict
JNull == [jnull |-> TRUE]

IsNone(v) == "jnull" \in DOMAIN v

\* d.get(k, default)
Get(d, k, default) == IF k \in DOMAIN d THEN d[k] ELSE default

\* truth value of a str-or-None
Truthy(s) == s # None /\ s # ""

\* an exception: type(e).__name__ and str(e)
Exc(type, msg) == [type |-> type, msg |-> msg]

\* ', '.join(words)
RECURSIVE Join(_)
Join(words) ==
    IF Len(words) = 0 THEN ""
    ELSE IF Len(words) = 1 THEN words[1]
    ELSE words[1] \o ", " \o Join(Tail(words))

\* seq[:n]
Prefix(seq, n) == SubSeq(seq, 1, IF Len(seq) < n THEN Len(seq) ELSE n)

-----------------------------------------------------------------------------
(* GuardrailService._parse_assessments.  The reason texts are the source's, *)
(* with the letters D-stroke and d-stroke written D and d.               *)

\* custom_words[:3]
WordLimit == 3

\* `if action and action != 'NONE'`
ActiveAction(entry) ==
    LET action == Get(entry, "action", None)
    IN  Truthy(action) /\ action # "NONE"

ContentPolicyReasons(assessment) ==
    IF "contentPolicy" \notin DOMAIN assessment THEN <<>>
    ELSE LET filters == Get(assessment.contentPolicy, "filters", <<>>)
             hit     == SelectSeq(filters, ActiveAction)
         IN  [i \in 1..Len(hit) |->
                "Nội dung " \o Get(hit[i], "type", "Unknown") \o ": "
                \o hit[i].action \o " (Dộ tin cậy: "
                \o Get(hit[i], "confidence", "N/A") \o ")"]

SensitiveInformationReasons(assessment) ==
    IF "sensitiveInformationPolicy" \notin DOMAIN assessment THEN <<>>
    ELSE LET policy  == assessment.sensitiveInformationPolicy
             pii     == SelectSeq(Get(policy, "piiEntities", <<>>), ActiveAction)
             regexes == SelectSeq(Get(policy, "regexes", <<>>), ActiveAction)
         IN  [i \in 1..Len(pii) |->
                "Thông tin nhạy cảm (" \o Get(pii[i], "type", "Unknown")
                \o "): " \o pii[i].action]
             \o
             [i \in 1..Len(regexes) |->
                "Pattern nhạy cảm (" \o Get(regexes[i], "name", "Unknown")
                \o "): " \o regexes[i].action]

\* the customWords part of the wordPolicy branch: no test of the entries' action
CustomWordReasons(custom_words) ==
    IF Len(custom_words) = 0 THEN <<>>
    ELSE LET first   == Prefix(custom_words, WordLimit)
             matched == [i \in 1..Len(first) |-> Get(first[i], "match", "")]
             word_list == Join(matched)
                          \o (IF Len(custom_words) > WordLimit THEN "..." ELSE "")
         IN  << "Từ bị cấm: " \o word_list >>

\* the managedWordLists part of the wordPolicy branch
ManagedListReasons(managed_lists) ==
    IF Len(managed_lists) = 0 THEN <<>>
    ELSE << "Managed word list: " \o ToString(Len(managed_lists)) \o " vi phạm" >>

WordPolicyReasons(assessment) ==
    IF "wordPolicy" \notin DOMAIN assessment THEN <<>>
    ELSE CustomWordReasons(Get(assessment.wordPolicy, "customWords", <<>>))
         \o ManagedListReasons(Get(assessment.wordPolicy, "managedWordLists", <<>>))

TopicPolicyReasons(assessment) ==
    IF "topicPolicy" \notin DOMAIN assessment THEN <<>>
    ELSE LET hit == SelectSeq(Get(assessment.topicPolicy, "topics", <<>>), ActiveAction)
         IN  [i \in 1..Len(hit) |->
                "Chủ dề vi phạm: " \o Get(hit[i], "name", "Unknown")]

\* one iteration of `for assessment in assessments`
AssessmentReasons(assessment) ==
    ContentPolicyReasons(assessment)
    \o SensitiveInformationReasons(assessment)
    \o WordPolicyReasons(assessment)
    \o TopicPolicyReasons(assessment)

\* assessment['contentPolicy'].get(...) on a null: AttributeError
AssessmentRaises(assessment) ==
    "contentPolicy" \in DOMAIN assessment /\ IsNone(assessment.contentPolicy)

RECURSIVE CollectReasons(_)
CollectReasons(assessments) ==
    IF Len(assessments) = 0 THEN <<>>
    ELSE AssessmentReasons(Head(assessments)) \o CollectReasons(Tail(assessments))

\* [raised, reasons]: the list returned, or the exception that left the loop
_parse_assessments(assessments) ==
    IF \E i \in 1..Len(assessments) : AssessmentRaises(assessments[i])
    THEN [raised |-> TRUE,
          exc |-> Exc("AttributeError", "'NoneType' object has no attribute 'get'")]
    ELSE [raised |-> FALSE, reasons |-> CollectReasons(assessments)]

-----------------------------------------------------------------------------
(* The remote calls, as the log records them *)

ApplyGuardrailCall(text) ==
    [api |-> "apply_guardrail", text |-> text, source |-> "INPUT"]

\* converse_params: "system" is added only for a truthy system_prompt
ConverseCall(message, system_prompt) ==
    IF Truthy(system_prompt)
    THEN [api |-> "converse", message |-> message, system |-> system_prompt]
    ELSE [api |-> "converse", message |-> message]

\* the outcome of a remote call: it raised exc, or it returned response
Raised(exc) == [raises |-> TRUE, exc |-> exc]
Returned(resp) == [raises |-> FALSE, response |-> resp]

-----------------------------------------------------------------------------
(* GuardrailService.check_content *)

\* a variant that forgets GUARDRAIL_INTERVENED
IsBlockedActionOnlyBlock(action) == action = "BLOCK"

\* `is_blocked = action in ['BLOCK', 'GUARDRAIL_INTERVENED']`
IsBlockedAction(action) == action \in {"BLOCK", "GUARDRAIL_INTERVENED"}

\* a variant without the default of the safe case
DefaultReasonsBlockedOnly(is_blocked, reasons) ==
    IF is_blocked /\ Len(reasons) = 0 THEN << "Nội dung vi phạm chính sách guardrail" >>
    ELSE reasons

\* the default reason given when the assessments gave none
DefaultReasons(is_blocked, reasons) ==
    IF is_blocked /\ Len(reasons) = 0 THEN << "Nội dung vi phạm chính sách guardrail" >>
    ELSE IF ~is_blocked /\ Len(reasons) = 0 THEN << "Nội dung an toàn" >>
    ELSE reasons

\* `masked_text = outputs[0].get('text', '')` when outputs is not empty
MaskedText(outputs) ==
    IF Len(outputs) > 0 THEN Get(outputs[1], "text", "") ELSE None

\* the result dict, with masked_text added `if masked_text`
BuildResult(text, action, reasons, is_blocked, masked_text) ==
    LET result == [success |-> TRUE, text |-> text, action |-> action,
                   reasons |-> reasons, is_blocked |-> is_blocked]
    IN  IF Truthy(masked_text)
        THEN result @@ ("masked_text" :> masked_text)
        ELSE result

\* the dict of the `except Exception as e` branch: fail-open
CheckFailure(text, exc) ==
    [success |-> FALSE, error |-> exc.msg, error_type |-> exc.type,
     text |-> text, is_blocked |-> FALSE]

\* the body of the `try` of check_content; g is the outcome of
\* bedrock.apply_guardrail.  The value says whether an exception left the body
\* (raised, exc) or what it returned (result), the remote calls made (calls)
\* and what _parse_assessments gave when it ran (parsed)
check_content_try(text, g) ==
    LET call == << ApplyGuardrailCall(text) >>
    IN  IF g.raises
        THEN [raised |-> TRUE, exc |-> g.exc, calls |-> call,
              parsed |-> [ran |-> FALSE]]
        ELSE
          LET resp        == g.response
              action      == Get(resp, "action", "UNKNOWN")
              assessments == Get(resp, "assessments", <<>>)
              outputs     == Get(resp, "outputs", <<>>)
              parsed      == _parse_assessments(assessments)
          IN  IF parsed.raised
              THEN [raised |-> TRUE, exc |-> parsed.exc, calls |-> call,
                    parsed |-> [ran |-> TRUE, raised |-> TRUE]]
              ELSE
                LET masked_text == MaskedText(outputs)
                    is_blocked  == IsBlockedAction(action)
                    reasons     == DefaultReasons(is_blocked, parsed.reasons)
                IN  [raised |-> FALSE,
                     result |-> BuildResult(text, action, reasons, is_blocked,
                                            masked_text),
                     calls  |-> call,
                     parsed |-> [ran |-> TRUE, raised |-> FALSE,
                                 reasons |-> parsed.reasons]]

\* a variant whose except clause catches the client's errors only
CheckExceptClientOnly(text, body) ==
    IF body.raised /\ body.exc.type \in { "ClientError", "EndpointConnectionError" }
    THEN [raises |-> FALSE, result |-> CheckFailure(text, body.exc),
          calls |-> body.calls, parsed |-> body.parsed]
    ELSE IF body.raised
    THEN [raises |-> TRUE, exc |-> body.exc,
          calls |-> body.calls, parsed |-> body.parsed]
    ELSE [raises |-> FALSE, result |-> body.result,
          calls |-> body.calls, parsed |-> body.parsed]

\* `except Exception as e`: every exception of the body becomes the failure dict
CheckExcept(text, body) ==
    IF body.raised
    THEN [raises |-> FALSE, result |-> CheckFailure(text, body.exc),
          calls |-> body.calls, parsed |-> body.parsed]
    ELSE [raises |-> FALSE, result |-> body.result,
          calls |-> body.calls, parsed |-> body.parsed]

\* the value is [raises: whether an exception leaves check_content (with exc),
\* result: the dict returned, calls, parsed]
check_content(text, g) == CheckExcept(text, check_content_try(text, g))

-----------------------------------------------------------------------------
(* GuardrailService.chat_with_ai *)

\* response['output']['message']['content'][0]['text']
ExtractText(resp) ==
    IF "output" \notin DOMAIN resp
    THEN [raised |-> TRUE, exc |-> Exc("KeyError", "'output'")]
    ELSE IF "message" \notin DOMAIN resp.output
    THEN [raised |-> TRUE, exc |-> Exc("KeyError", "'message'")]
    ELSE IF "content" \notin DOMAIN resp.output.message
    THEN [raised |-> TRUE, exc |-> Exc("KeyError", "'content'")]
    ELSE IF Len(resp.output.message.content) = 0
    THEN [raised |-> TRUE, exc |-> Exc("IndexError", "list index out of range")]
    ELSE IF "text" \notin DOMAIN resp.output.message.content[1]
    THEN [raised |-> TRUE, exc |-> Exc("KeyError", "'text'")]
    ELSE [raised |-> FALSE, text |-> resp.output.message.content[1].text]

\* the dict returned when check_content reports is_blocked
InputBlocked(input_check) ==
    [success |-> FALSE,
     message |-> "Tin nhắn của bạn bị chặn vì vi phạm chính sách nội dung",
     reasons |-> Get(input_check, "reasons", <<>>),
     input_check |-> input_check]

\* the dict returned when stopReason is 'guardrail_intervened'
OutputBlocked(input_check, stop_reason) ==
    [success |-> FALSE,
     message |-> "Phản hồi của AI bị chặn vì vi phạm chính sách nội dung",
     reasons |-> << "Output vi phạm guardrail" >>,
     input_check |-> input_check,
     stop_reason |-> stop_reason]

ChatSuccess(message, ai_response, input_check, stop_reason) ==
    [success |-> TRUE, user_message |-> message, ai_response |-> ai_response,
     is_safe |-> TRUE, input_check |-> input_check, stop_reason |-> stop_reason]

\* the dict of the `except Exception as e` branch
ChatFailure(exc) ==
    [success |-> FALSE, error |-> exc.msg, error_type |-> exc.type]

\* a variant that gates on the action BLOCK alone
InputIsBlockedOnlyBlock(input_check) == Get(input_check, "action", None) = "BLOCK"

\* `if input_check.get('is_blocked')`
InputIsBlocked(input_check) == Get(input_check, "is_blocked", FALSE)

\* a variant that compares the stop reason in the wrong case
ConverseResultUpperCase(message, input_check, resp) ==
    LET stop_reason == Get(resp, "stopReason", None)
    IN  IF stop_reason = "GUARDRAIL_INTERVENED"
        THEN OutputBlocked(input_check, stop_reason)
        ELSE LET got == ExtractText(resp)
             IN  IF got.raised THEN ChatFailure(got.exc)
                 ELSE ChatSuccess(message, got.text, input_check, stop_reason)

\* steps 5 and 6: what is made of the response converse returned
ConverseResult(message, input_check, resp) ==
    LET stop_reason == Get(resp, "stopReason", None)
    IN  IF stop_reason = "guardrail_intervened"
        THEN OutputBlocked(input_check, stop_reason)
        ELSE LET got == ExtractText(resp)
             IN  IF got.raised THEN ChatFailure(got.exc)
                 ELSE ChatSuccess(message, got.text, input_check, stop_reason)

\* the body of the `try` of chat_with_ai; g, c are the outcomes of
\* bedrock.apply_guardrail and bedrock.converse (c is consumed only if converse
\* is called).  The value is [result, calls, check: what check_content gave,
\* conversed: whether converse was called]; an exception raised in the body is
\* already turned into the dict of the except branch
chat_with_ai(message, system_prompt, g, c) ==
    LET chk == check_content(message, g)
    IN  IF chk.raises
        THEN [raises |-> FALSE, result |-> ChatFailure(chk.exc),
              calls |-> chk.calls, check |-> chk, conversed |-> FALSE]
        ELSE IF InputIsBlocked(chk.result)
        THEN [raises |-> FALSE, result |-> InputBlocked(chk.result),
              calls |-> chk.calls, check |-> chk, conversed |-> FALSE]
        ELSE [raises |-> FALSE,
              result |-> IF c.raises THEN ChatFailure(c.exc)
                         ELSE ConverseResult(message, chk.result, c.response),
              calls  |-> chk.calls \o << ConverseCall(message, system_prompt) >>,
              check  |-> chk, conversed |-> TRUE]

-----------------------------------------------------------------------------
(* api.py: the JSON body (request.json) and its validation *)

JsonNull == [kind |-> "null"]
JsonObject(fields) == [kind |-> "object", fields |-> fields]
JsonArray(items) == [kind |-> "array", items |-> items]

\* `not data`: None, {} and [] are false
Falsy(data) ==
    \/ data.kind = "null"
    \/ data.kind = "object" /\ DOMAIN data.fields = {}
    \/ data.kind = "array" /\ Len(data.items) = 0

\* `field in data`: a key of a dict, an element of a list
Contains(data, field) ==
    \/ data.kind = "object" /\ field \in DOMAIN data.fields
    \/ data.kind = "array" /\ \E i \in 1..Len(data.items) : data.items[i] = field

\* `if not data or field not in data`
MissingField(data, field) == Falsy(data) \/ ~Contains(data, field)

\* data[field] raises TypeError on a list ("list indices must be integers")
SubscriptRaises(data) == data.kind # "object"

BadRequest(msg) == [status |-> 400, body |-> [error |-> msg]]

\* jsonify(result), status 200
Ok(result) == [status |-> 200, body |-> result]

\* an exception that leaves the view function: Flask answers 500
ServerError(exc) == [status |-> 500, body |-> [unhandled |-> exc.type]]

ListIndexError == Exc("TypeError", "list indices must be integers or slices, not str")

\* what a route gives when it called nothing
NoCalls(resp) ==
    [response |-> resp, calls |-> <<>>, guard |-> <<>>, converse |-> <<>>,
     checks |-> <<>>]

-----------------------------------------------------------------------------
(* api.py: the routes *)

health_check == NoCalls(Ok([status |-> "healthy", service |-> "guardrail-api"]))

\* POST /api/check
check(data, g) ==
    IF MissingField(data, "text") THEN NoCalls(BadRequest("Missing 'text' field"))
    ELSE IF SubscriptRaises(data) THEN NoCalls(ServerError(ListIndexError))
    ELSE LET chk == check_content(data.fields.text, g)
         IN  [response |-> IF chk.raises THEN ServerError(chk.exc) ELSE Ok(chk.result),
              calls |-> chk.calls,
              guard |-> << g >>, converse |-> <<>>, checks |-> << chk >>]

\* POST /api/chat: chat_with_ai is called without a system prompt
chat(data, g, c) ==
    IF MissingField(data, "message") THEN NoCalls(BadRequest("Missing 'message' field"))
    ELSE IF SubscriptRaises(data) THEN NoCalls(ServerError(ListIndexError))
    ELSE LET r == chat_with_ai(data.fields.message, None, g, c)
         IN  [response |-> IF r.raises THEN ServerError(r.exc) ELSE Ok(r.result),
              calls |-> r.calls,
              guard |-> << g >>,
              converse |-> IF r.conversed THEN << c >> ELSE <<>>,
              checks |-> << r.check >>]

\* a variant that leaves the loop at the first failed check
RECURSIVE BatchLoopStopOnFailure(_, _, _, _)
BatchLoopStopOnFailure(texts, gs, i, acc) ==
    IF i > Len(texts) THEN acc
    ELSE LET chk  == check_content(texts[i], gs[i])
             seen == [raised  |-> FALSE,
                      calls   |-> acc.calls \o chk.calls,
                      checks  |-> Append(acc.checks, chk),
                      results |-> Append(acc.results, chk.result)]
         IN  IF ~chk.result.success THEN seen
             ELSE BatchLoopStopOnFailure(texts, gs, i + 1, seen)

\* `for text in data['texts']`: the items from the i-th on, after the earlier
\* ones gave acc; an exception leaving check_content would leave the loop
RECURSIVE BatchLoop(_, _, _, _)
BatchLoop(texts, gs, i, acc) ==
    IF i > Len(texts) THEN acc
    ELSE LET chk  == check_content(texts[i], gs[i])
             seen == [calls  |-> acc.calls \o chk.calls,
                      checks |-> Append(acc.checks, chk)]
         IN  IF chk.raises
             THEN seen @@ [raised |-> TRUE, exc |-> chk.exc, results |-> acc.results]
             ELSE BatchLoop(texts, gs, i + 1,
                            seen @@ [raised |-> FALSE,
                                     results |-> Append(acc.results, chk.result)])

\* POST /api/batch-check; gs[i] is the outcome of the i-th apply_guardrail call
batch_check(data, gs) ==
    IF MissingField(data, "texts") THEN NoCalls(BadRequest("Missing 'texts' array"))
    ELSE IF SubscriptRaises(data) THEN NoCalls(ServerError(ListIndexError))
    ELSE LET done == BatchLoop(data.fields.texts, gs, 1,
                               [raised |-> FALSE, results |-> <<>>,
                                calls |-> <<>>, checks |-> <<>>])
         IN  [response |-> IF done.raised THEN ServerError(done.exc)
                           ELSE Ok([count |-> Len(done.results),
                                    results |-> done.results]),
              calls |-> done.calls,
              guard |-> SubSeq(gs, 1, Len(done.checks)),
              converse |-> <<>>,
              checks |-> done.checks]

-----------------------------------------------------------------------------
(* The inputs: request bodies and provider outcomes *)

Restrict(f, keys) == [k \in keys |-> f[k]]

SeqsUpTo(S, n) == UNION { [1..k -> S] : k \in 0..n }

\* the strings a client sends as text / message / an item of texts
Texts == { "", "card 4111" }

\* contentPolicy.filters entries
HateBlocked == [type |-> "HATE", confidence |-> "HIGH", action |-> "BLOCKED"]
ViolenceNone == [type |-> "VIOLENCE", confidence |-> "LOW", action |-> "NONE"]
InsultsNoAction == [type |-> "INSULTS", confidence |-> "NONE"]
BareBlocked == [action |-> "BLOCKED"]

ContentPolicies ==
    { [filters |-> << HateBlocked >>],
      [filters |-> << ViolenceNone >>],
      [filters |-> << ViolenceNone, InsultsNoAction, BareBlocked >>] }

\* sensitiveInformationPolicy entries
EmailAnonymized == [type |-> "EMAIL", match |-> "a@b.c", action |-> "ANONYMIZED"]
PhoneNone == [type |-> "PHONE", match |-> "0123", action |-> "NONE"]
CardRegexBlocked == [name |-> "card", match |-> "4111", action |-> "BLOCKED"]
IdRegexNone == [name |-> "id", match |-> "77", action |-> "NONE"]

SensitivePolicies ==
    { [piiEntities |-> << EmailAnonymized >>],
      [piiEntities |-> << PhoneNone >>, regexes |-> << IdRegexNone >>],
      [piiEntities |-> << PhoneNone, EmailAnonymized >>,
       regexes |-> << IdRegexNone, CardRegexBlocked >>] }

\* wordPolicy entries
Word(match, action) == [match |-> match, action |-> action]
Profanity(action) == [match |-> "damn", type |-> "PROFANITY", action |-> action]

WordPolicies ==
    { [customWords |-> << Word("foo", "NONE") >>],
      [customWords |-> << Word("foo", "BLOCKED") >>,
       managedWordLists |-> << Profanity("BLOCKED") >>],
      [customWords |-> << Word("a", "BLOCKED"), Word("b", "BLOCKED"),
                          Word("c", "NONE"), Word("d", "BLOCKED") >>],
      [managedWordLists |-> << Profanity("NONE") >>],
      [customWords |-> <<>>, managedWordLists |-> <<>>] }

\* topicPolicy entries
SalaryBlocked == [name |-> "Salary", type |-> "DENY", action |-> "BLOCKED"]
SalaryNone == [name |-> "Salary", type |-> "DENY", action |-> "NONE"]

TopicPolicies ==
    { [topics |-> << SalaryBlocked >>],
      [topics |-> << SalaryNone >>],
      [topics |-> << SalaryNone, BareBlocked >>] }

PolicyNames ==
    { "contentPolicy", "sensitiveInformationPolicy", "wordPolicy", "topicPolicy" }

\* an assessment holds any of the four sub-sections
Assessments ==
    { Restrict(full, present) :
        full \in [contentPolicy : ContentPolicies,
                  sensitiveInformationPolicy : SensitivePolicies,
                  wordPolicy : WordPolicies,
                  topicPolicy : TopicPolicies],
        present \in SUBSET PolicyNames }

\* a malformed assessment: contentPolicy is null
NullPolicyAssessment == [contentPolicy |-> JNull]

\* the assessments that longer lists are made of
CoreAssessments ==
    { [contentPolicy |-> [filters |-> << HateBlocked >>]],
      [wordPolicy |-> [customWords |-> << Word("foo", "NONE") >>]],
      [contentPolicy |-> [filters |-> << ViolenceNone >>],
       topicPolicy |-> [topics |-> << SalaryNone >>]],
      [sensitiveInformationPolicy |-> [piiEntities |-> << EmailAnonymized >>],
       topicPolicy |-> [topics |-> << SalaryBlocked >>]],
      NullPolicyAssessment }

CoreLists == SeqsUpTo(CoreAssessments, MaxAssessments)

AllLists ==
    CoreLists \cup { << a >> : a \in Assessments }

\* a response field that may be absent
Optional(key, values) == { <<>> } \cup { key :> v : v \in values }

ActionFields == Optional("action", { "NONE", "ALLOW", "BLOCK", "GUARDRAIL_INTERVENED" })

OutputFields ==
    Optional("outputs",
             { <<>>, << <<>> >> }
             \cup { << [text |-> t] >> : t \in Texts \cup { "card ****" } })

\* the responses of apply_guardrail whose assessments are among lists
GuardResponses(lists, outputFields) ==
    { action @@ assessments @@ outputs :
        action \in ActionFields,
        assessments \in Optional("assessments", lists),
        outputs \in outputFields }

\* the exceptions the client raises
ClientErrors ==
    { Exc("ClientError", "AccessDeniedException"),
      Exc("EndpointConnectionError", "Could not connect to the endpoint URL") }

\* what apply_guardrail does in a /api/check request
GuardOutcomes ==
    { Raised(e) : e \in ClientErrors }
    \cup { Returned(r) : r \in GuardResponses(AllLists, OutputFields) }

\* what apply_guardrail does in a /api/chat request
ChatGuardOutcomes ==
    { Raised(e) : e \in ClientErrors }
    \cup { Returned(r) :
             r \in GuardResponses({ <<>> } \cup { << a >> : a \in CoreAssessments },
                                  Optional("outputs", { << [text |-> "card ****"] >> })) }

\* what apply_guardrail does for an item of a /api/batch-check request
BatchGuardOutcomes ==
    { Raised(Exc("ClientError", "AccessDeniedException")) }
    \cup { Returned(r) :
             r \in GuardResponses({ <<>>, << NullPolicyAssessment >>,
                                    << [contentPolicy |-> [filters |-> << HateBlocked >>]] >> },
                                  { <<>> }) }

\* output.message.content of a converse response
ContentLists ==
    { <<>>, << [text |-> "Xin chào"] >>, << [text |-> ""] >>,
      << [toolUse |-> [name |-> "lookup"]] >> }

ConverseResponses ==
    { stop @@ output :
        stop \in Optional("stopReason", { "end_turn", "max_tokens", "guardrail_intervened" }),
        output \in Optional("output", { [message |-> [role |-> "assistant", content |-> c]] :
                                          c \in ContentLists }) }

\* what converse does
ConverseOutcomes ==
    { Raised(Exc("ThrottlingException", "Too many requests")) }
    \cup { Returned(r) : r \in ConverseResponses }

\* the JSON bodies sent to a route whose required field is `field`
Bodies(field, values) ==
    { JsonNull, JsonObject(<<>>), JsonObject([other |-> "x"]),
      JsonArray(<<>>), JsonArray(<< "x" >>), JsonArray(<< field >>) }
    \cup { JsonObject(field :> v) : v \in values }

-----------------------------------------------------------------------------
(* The server: one request at a time, nothing kept between requests *)

NoRequest == [route |-> "none"]
NoResponse == [status |-> 0]

Init ==
    /\ pc = "idle"
    /\ request = NoRequest
    /\ response = NoResponse
    /\ calls = <<>>
    /\ provider = [guard |-> <<>>, converse |-> <<>>]
    /\ checks = <<>>

\* the view function ran and gave r
Serve(route, data, r) ==
    /\ pc' = "done"
    /\ request' = [route |-> route, data |-> data]
    /\ response' = r.response
    /\ calls' = r.calls
    /\ provider' = [guard |-> r.guard, converse |-> r.converse]
    /\ checks' = r.checks

Health ==
    /\ pc = "idle"
    /\ Serve("/health", JsonNull, health_check)

\* whether the route goes on to the facade with the body
Accepted(data, field) == ~MissingField(data, field) /\ ~SubscriptRaises(data)

\* the outcomes the provider may give: none is consumed by a rejected request
Consumed(data, field, outcomes) ==
    IF Accepted(data, field) THEN outcomes ELSE { CHOOSE o \in outcomes : TRUE }

Check ==
    /\ pc = "idle"
    /\ \E data \in Bodies("text", Texts) :
         \E g \in Consumed(data, "text", GuardOutcomes) :
            Serve("/api/check", data, check(data, g))

Chat ==
    /\ pc = "idle"
    /\ \E data \in Bodies("message", Texts) :
         \E g \in Consumed(data, "message", ChatGuardOutcomes),
            c \in Consumed(data, "message", ConverseOutcomes) :
            Serve("/api/chat", data, chat(data, g, c))

\* the number of items the loop of batch_check will run over
BatchSize(data) ==
    IF Accepted(data, "texts") THEN Len(data.fields.texts) ELSE 0

BatchCheck ==
    /\ pc = "idle"
    /\ \E data \in Bodies("texts", SeqsUpTo(Texts, MaxBatch)) :
         \E gs \in [1..BatchSize(data) -> BatchGuardOutcomes] :
            Serve("/api/batch-check", data, batch_check(data, gs))

\* the response is sent; the request's objects are dropped
Finish ==
    /\ pc = "done"
    /\ pc' = "idle"
    /\ request' = NoRequest
    /\ response' = NoResponse
    /\ calls' = <<>>
    /\ provider' = [guard |-> <<>>, converse |-> <<>>]
    /\ checks' = <<>>

Next == Health \/ Check \/ Chat \/ BatchCheck \/ Finish

Spec == Init /\ [][Next]_vars

-----------------------------------------------------------------------------
(* What the claims speak of *)

\* the facade was entered by the route named
Entered(route) == pc = "done" /\ request.route = route /\ Len(checks) > 0

\* the text handed to the i-th check_content call of the request
InputText(i) ==
    CASE request.route = "/api/check" -> request.data.fields.text
      [] request.route = "/api/chat" -> request.data.fields.message
      [] request.route = "/api/batch-check" -> request.data.fields.texts[i]

\* the provider's response holds an assessment whose contentPolicy is null
NullPolicyIn(resp) ==
    \E j \in 1..Len(Get(resp, "assessments", <<>>)) :
        /\ "contentPolicy" \in DOMAIN resp.assessments[j]
        /\ resp.assessments[j].contentPolicy = JNull

\* the i-th check_content call failed: the client raised, or the response
\* could not be processed
CheckFailed(i) ==
    \/ provider.guard[i].raises
    \/ NullPolicyIn(provider.guard[i].response)

\* every entry of section[key] has the action "NONE"
EntriesNone(section, key) ==
    \A k \in 1..Len(Get(section, key, <<>>)) :
        Get(section[key][k], "action", None) = "NONE"

\* the sub-section is absent, or all its entries have the action "NONE"
Quiet(assessment, name, keys) ==
    \/ name \notin DOMAIN assessment
    \/ /\ assessment[name] # JNull
       /\ \A key \in keys : EntriesNone(assessment[name], key)

AllQuiet(assessments) ==
    \A j \in 1..Len(assessments) :
        /\ Quiet(assessments[j], "contentPolicy", { "filters" })
        /\ Quiet(assessments[j], "sensitiveInformationPolicy", { "piiEntities", "regexes" })
        /\ Quiet(assessments[j], "wordPolicy", { "customWords", "managedWordLists" })
        /\ Quiet(assessments[j], "topicPolicy", { "topics" })

\* the converse response holds output.message.content[0].text
HasText(resp) ==
    /\ "output" \in DOMAIN resp
    /\ "message" \in DOMAIN resp.output
    /\ "content" \in DOMAIN resp.output.message
    /\ Len(resp.output.message.content) > 0
    /\ "text" \in DOMAIN resp.output.message.content[1]

\* the field a route requires
RequiredField ==
    CASE request.route = "/api/check" -> "text"
      [] request.route = "/api/chat" -> "message"
      [] request.route = "/api/batch-check" -> "texts"

\* the JSON body is not an object holding the required field
LacksField ==
    ~(request.data.kind = "object" /\ RequiredField \in DOMAIN request.data.fields)

\* the dict is the uniform failure object of chat_with_ai
UniformFailure(body) ==
    /\ DOMAIN body = { "success", "error", "error_type" }
    /\ body.success = FALSE

-----------------------------------------------------------------------------
(* The claims *)

\* C1: in chat_with_ai, when check_content returns is_blocked = true, converse
\* is not called during the request, and the payload has success = false, the
\* reasons of the check, and the check result under input_check.
C1_BlockedInputShortCircuits ==
    (Entered("/api/chat") /\ checks[1].result.is_blocked) =>
        /\ \A i \in 1..Len(calls) : calls[i].api # "converse"
        /\ Len(provider.converse) = 0
        /\ response.status = 200
        /\ response.body.success = FALSE
        /\ response.body.reasons = checks[1].result.reasons
        /\ response.body.input_check = checks[1].result

C1_Witness ==
    /\ Entered("/api/chat")
    /\ checks[1].result.is_blocked
    /\ checks[1].result.action = "GUARDRAIL_INTERVENED"
    /\ response.body.success = FALSE

\* C2 (as stated): in chat_with_ai, whenever the remote call of either phase
\* raises (apply_guardrail or converse), the chat operation returns the uniform
\* failure object (success = false, error, error_type) and nothing escapes to
\* the route.
C2_AnyRaiseGivesUniformFailure ==
    (/\ Entered("/api/chat")
     /\ \/ provider.guard[1].raises
        \/ Len(provider.converse) = 1 /\ provider.converse[1].raises) =>
        /\ response.status = 200
        /\ UniformFailure(response.body)

\* C3: check_content never raises; when the client call or the processing of
\* its response fails, it returns success = false, error, error_type, the
\* original text and is_blocked = false, after exactly one call to the client.
C3_CheckFailsOpenAfterOneCall ==
    \A i \in 1..Len(checks) :
        LET chk == checks[i]
            g   == provider.guard[i]
        IN  /\ ~chk.raises
            /\ CheckFailed(i) =>
                 /\ DOMAIN chk.result =
                       { "success", "error", "error_type", "text", "is_blocked" }
                 /\ chk.result.success = FALSE
                 /\ chk.result.text = InputText(i)
                 /\ chk.result.is_blocked = FALSE
                 /\ g.raises => /\ chk.result.error = g.exc.msg
                                /\ chk.result.error_type = g.exc.type
                 /\ ~g.raises => chk.result.error_type = "AttributeError"
                 /\ Len(chk.calls) = 1
                 /\ chk.calls[1].api = "apply_guardrail"
                 /\ chk.calls[1].text = InputText(i)
                 /\ request.route = "/api/check" => calls = chk.calls

C3_Witness ==
    /\ Entered("/api/check")
    /\ ~provider.guard[1].raises
    /\ NullPolicyIn(provider.guard[1].response)
    /\ response.status = 200
    /\ response.body.success = FALSE
    /\ Len(calls) = 1

\* C4: in a successful check_content result, is_blocked is true exactly when
\* the provider's action is "BLOCK" or "GUARDRAIL_INTERVENED"; a missing action
\* is reported as "UNKNOWN" and is not blocked; the assessments play no part.
C4_BlockedIffBlockingAction ==
    \A i \in 1..Len(checks) :
        checks[i].result.success =>
            LET resp == provider.guard[i].response
            IN  /\ checks[i].result.action =
                      (IF "action" \in DOMAIN resp THEN resp.action ELSE "UNKNOWN")
                /\ checks[i].result.is_blocked =
                      /\ "action" \in DOMAIN resp
                      /\ resp.action \in { "BLOCK", "GUARDRAIL_INTERVENED" }

C4_Witness ==
    /\ Entered("/api/check")
    /\ response.body.success
    /\ response.body.is_blocked
    /\ response.body.action = "GUARDRAIL_INTERVENED"
    /\ checks[1].parsed.reasons = <<>>

\* C5: the reasons of a successful check_content result are never empty: they
\* are the reasons _parse_assessments collected when there are any, else the
\* one default reason of the blocked, or of the safe, case.
C5_ReasonsNeverEmpty ==
    \A i \in 1..Len(checks) :
        checks[i].result.success =>
            LET reasons   == checks[i].result.reasons
                collected == checks[i].parsed.reasons
            IN  /\ Len(reasons) > 0
                /\ Len(collected) > 0 => reasons = collected
                /\ Len(collected) = 0 =>
                      reasons = IF checks[i].result.is_blocked
                                THEN << "Nội dung vi phạm chính sách guardrail" >>
                                ELSE << "Nội dung an toàn" >>

C5_Witness ==
    /\ Entered("/api/check")
    /\ response.body.success
    /\ ~response.body.is_blocked
    /\ checks[1].parsed.reasons = <<>>
    /\ response.body.reasons = << "Nội dung an toàn" >>

\* C6 (as stated): when every sub-section of every assessment is absent or
\* holds only entries whose action is "NONE", _parse_assessments returns an
\* empty list.
C6_QuietAssessmentsGiveNoReasons ==
    \A i \in 1..Len(checks) :
        (/\ ~provider.guard[i].raises
         /\ AllQuiet(Get(provider.guard[i].response, "assessments", <<>>))) =>
            /\ checks[i].parsed.ran
            /\ ~checks[i].parsed.raised
            /\ checks[i].parsed.reasons = <<>>

\* C7: /api/batch-check with a texts list of N items answers count = N and N
\* results, results[i] being the check of texts[i]; the items are checked one
\* by one in list order, and a failed check gives the item's failure object
\* and does not stop the later checks.
C7_BatchInOrder ==
    (/\ pc = "done"
     /\ request.route = "/api/batch-check"
     /\ ~LacksField) =>
        LET texts == request.data.fields.texts
            body  == response.body
        IN  /\ response.status = 200
            /\ body.count = Len(texts)
            /\ Len(body.results) = Len(texts)
            /\ Len(calls) = Len(texts)
            /\ Len(provider.guard) = Len(texts)
            /\ \A i \in 1..Len(texts) :
                  /\ body.results[i] = check_content(texts[i], provider.guard[i]).result
                  /\ body.results[i].text = texts[i]
                  /\ body.results[i].success = ~CheckFailed(i)
                  /\ calls[i].api = "apply_guardrail"
                  /\ calls[i].text = texts[i]

C7_Witness ==
    /\ pc = "done"
    /\ request.route = "/api/batch-check"
    /\ response.status = 200
    /\ response.body.count = 2
    /\ request.data.fields.texts = << "card 4111", "" >>
    /\ ~response.body.results[1].success
    /\ response.body.results[2].success
    /\ response.body.results[2].is_blocked

\* C8 (as stated): on /api/check, /api/chat and /api/batch-check the status is
\* 400 exactly when the JSON body lacks the required field, and then the
\* facade is not called; when the field is present the facade is called (once,
\* or once per item of texts) and the status is 200.
C8_StatusFollowsField ==
    (pc = "done" /\ request.route # "/health") =>
        /\ (response.status = 400) = LacksField
        /\ LacksField => Len(calls) = 0 /\ Len(checks) = 0
        /\ ~LacksField =>
              /\ response.status = 200
              /\ Len(checks) = IF request.route = "/api/batch-check"
                               THEN Len(request.data.fields.texts) ELSE 1

\* C9 (as stated): a successful check_content result has masked_text only if
\* the provider returned an output text that differs from the original text.
C9_MaskedOnlyWhenDifferent ==
    \A i \in 1..Len(checks) :
        (checks[i].result.success /\ "masked_text" \in DOMAIN checks[i].result) =>
            LET outputs == Get(provider.guard[i].response, "outputs", <<>>)
            IN  /\ Len(outputs) > 0
                /\ Get(outputs[1], "text", "") # InputText(i)

\* the converse call of a chat request returned a response
ConverseReturned ==
    /\ Entered("/api/chat")
    /\ ~checks[1].result.is_blocked
    /\ Len(provider.converse) = 1
    /\ ~provider.converse[1].raises

\* the result of the stop reason 'guardrail_intervened'
OutputBlockedBody(body) ==
    /\ body.success = FALSE
    /\ "ai_response" \notin DOMAIN body
    /\ "stop_reason" \in DOMAIN body
    /\ body.stop_reason = "guardrail_intervened"
    /\ body.input_check = checks[1].result

\* the result of any other stop reason
GeneratedBody(body, resp) ==
    /\ body.success = TRUE
    /\ body.is_safe = TRUE
    /\ body.ai_response = resp.output.message.content[1].text
    /\ body.input_check = checks[1].result

\* C10 (as stated): when the input check is not blocked and converse returns,
\* the outcome depends on the stop reason alone: 'guardrail_intervened' gives
\* success = false without ai_response and with stop_reason, any other gives
\* success = true, is_safe = true, the text as ai_response and the input check.
C10_OutcomeByStopReasonAlone ==
    ConverseReturned =>
        LET resp == provider.converse[1].response
        IN  IF Get(resp, "stopReason", None) = "guardrail_intervened"
            THEN OutputBlockedBody(response.body)
            ELSE GeneratedBody(response.body, resp)

\* C10 (amended): as stated, but the success result is given only when the
\* response holds output.message.content[0].text; a response without it gives
\* the uniform failure object (KeyError or IndexError).  A payload with
\* success = true follows only a check that was not blocked and a response
\* whose stop reason is not 'guardrail_intervened'; the input-blocked failure
\* carries no stop_reason.
C10_OutcomeByStopReasonAndText ==
    /\ ConverseReturned =>
          LET resp == provider.converse[1].response
          IN  IF Get(resp, "stopReason", None) = "guardrail_intervened"
              THEN OutputBlockedBody(response.body)
              ELSE IF HasText(resp)
              THEN GeneratedBody(response.body, resp)
              ELSE /\ UniformFailure(response.body)
                   /\ response.body.error_type \in { "KeyError", "IndexError" }
    /\ (Entered("/api/chat") /\ response.body.success) =>
          /\ ConverseReturned
          /\ Get(provider.converse[1].response, "stopReason", None)
                # "guardrail_intervened"
    /\ (Entered("/api/chat") /\ checks[1].result.is_blocked) =>
          "stop_reason" \notin DOMAIN response.body

C10_Witness ==
    /\ ConverseReturned
    /\ Get(provider.converse[1].response, "stopReason", None) = "guardrail_intervened"
    /\ HasText(provider.converse[1].response)
    /\ response.body.success = FALSE
    /\ response.body.stop_reason = "guardrail_intervened"

=============================================================================
